---- MODULE Spec2Model ----
(***************************************************************************)
(* SkeddaBooker (src/skedda.py): the availability check space_is_free and  *)
(* the sequential booking loop run, with the two HTTP endpoints            *)
(* (get_bookings, book_space) as nondeterministic collaborators.           *)
(*                                                                         *)
(* Time is a clock reading in half-hours of one day; a timestamp string    *)
(* is a record of its form (offset-less, trailing "Z", explicit offset,    *)
(* malformed, missing), its wall-clock reading and its UTC offset.         *)
(* A JSON value is a record of its type and payload.                       *)
(***************************************************************************)
EXTENDS Integers, Sequences, FiniteSets, TLC

VARIABLES spaces, pc, at, start_dt, end_dt, bookings, fetched, i,
          checked, posted, result

vars == <<spaces, pc, at, start_dt, end_dt, bookings, fetched, i,
          checked, posted, result>>

(* ------------------------------ bounds -------------------------------- *)
MaxBookings == 2
MaxSpaces == 2

(* ---------------------------- JSON values ----------------------------- *)
Absent == [ty |-> "absent", s |-> "", n |-> 0, l |-> <<>>]
Null == [ty |-> "null", s |-> "", n |-> 0, l |-> <<>>]
FalseV == [ty |-> "bool", s |-> "", n |-> 0, l |-> <<>>]
StrV(x) == [ty |-> "str", s |-> x, n |-> 0, l |-> <<>>]
IntV(x) == [ty |-> "int", s |-> "", n |-> x, l |-> <<>>]
ListV(x) == [ty |-> "list", s |-> "", n |-> 0, l |-> x]

\* decimal rendering of the small integers used as identifiers
Decimal == [x \in 0..2 |-> CASE x = 0 -> "0" [] x = 1 -> "1" [] x = 2 -> "2"]

\* Python str() of a scalar identifier
Str(v) == IF v.ty = "str" THEN v.s ELSE Decimal[v.n]

\* Python truthiness of a JSON value
Truthy(v) ==
  CASE v.ty = "str" -> v.s # ""
    [] v.ty = "int" -> v.n # 0
    [] v.ty = "list" -> v.l # <<>>
    [] OTHER -> FALSE

(* ----------------------------- timestamps ----------------------------- *)
Ts(f, c, o) == [form |-> f, clock |-> c, off |-> o]
Naive(c) == Ts("naive", c, 0)
Zulu(c) == Ts("Z", c, 0)
Offset(c, o) == Ts("offset", c, o)
Malformed == Ts("malformed", 0, 0)
Missing == Ts("missing", 0, 0)

\* start_str.replace('Z', '+00:00')
ReplaceZ(t) == IF t.form = "Z" THEN Offset(t.clock, 0) ELSE t

\* datetime.fromisoformat: a parsed datetime, or a ValueError (ok = FALSE).
\* (the trailing "Z" never reaches it from the records modelled here:
\* space_is_free replaces it first)
fromisoformat(t) ==
  CASE t.form = "naive" -> [ok |-> TRUE, aware |-> FALSE, t |-> t.clock]
    [] t.form = "offset" -> [ok |-> TRUE, aware |-> TRUE, t |-> t.clock - t.off]
    [] OTHER -> [ok |-> FALSE, aware |-> FALSE, t |-> 0]


\* a comparison of two datetimes raises TypeError when exactly one is aware
Comparable(a, b) == a.aware = b.aware

(* ------------------------- reservation records ------------------------ *)
Booking(sp, s1, st, en) == [spaces |-> sp, space |-> s1, start |-> st, end |-> en]

\* lines 137-141: the list of blocked identifiers of one booking.
\* raise: append on a non-list (AttributeError, outside the try).
\* booking: the record afterwards; booking.get('spaces') hands out the
\* record's own list, so the append lands in the record.
BookingSpaces(booking) ==
  LET got == IF booking.spaces.ty = "absent" THEN ListV(<<>>) ELSE booking.spaces
      wrapped == IF got.ty = "str" THEN ListV(<<got>>) ELSE got
      aliased == booking.spaces.ty = "list"
  IN IF ~Truthy(booking.space)
       THEN [raise |-> FALSE, spaces |-> wrapped, booking |-> booking]
     ELSE IF wrapped.ty # "list"
       THEN [raise |-> TRUE, spaces |-> wrapped, booking |-> booking]
     ELSE LET appended == ListV(Append(wrapped.l, booking.space))
          IN [raise |-> FALSE, spaces |-> appended,
              booking |-> IF aliased THEN [booking EXCEPT !.spaces = appended]
                          ELSE booking]

\* line 143: str(space_id) in [str(s) for s in spaces], spaces a list
Names(space_id, sp) == \E k \in 1..Len(sp.l) : Str(sp.l[k]) = Str(space_id)

\* lines 144-160: TRUE when the booking makes space_is_free return False;
\* every exception inside the try (ValueError of a parse, TypeError of a
\* comparison) is swallowed and the booking skipped.
Blocks(booking, target_start, target_end) ==
  LET z == booking.start.form = "Z"
      booking_start == fromisoformat(IF z THEN ReplaceZ(booking.start) ELSE booking.start)
      booking_end == fromisoformat(IF z THEN ReplaceZ(booking.end) ELSE booking.end)
  IN IF ~booking_start.ok \/ ~booking_end.ok THEN FALSE
     ELSE IF ~Comparable(target_start, booking_end) THEN FALSE
     ELSE IF ~(target_start.t < booking_end.t) THEN FALSE
     ELSE IF ~Comparable(target_end, booking_start) THEN FALSE
     ELSE target_end.t > booking_start.t

\* lines 135-162: the loop over the bookings from index k on.
\* ret: "True", "False", or "raise" for an exception that leaves the function
RECURSIVE Scan(_, _, _, _, _)
Scan(space_id, target_start, target_end, bs, k) ==
  IF k > Len(bs) THEN [ret |-> "True", bookings |-> bs]
  ELSE LET m == BookingSpaces(bs[k])
           bs1 == [bs EXCEPT ![k] = m.booking]
       IN IF m.raise \/ m.spaces.ty # "list"
            THEN [ret |-> "raise", bookings |-> bs1]
          ELSE IF Names(space_id, m.spaces) /\ Blocks(m.booking, target_start, target_end)
            THEN [ret |-> "False", bookings |-> bs1]
          ELSE Scan(space_id, target_start, target_end, bs1, k + 1)

\* lines 130-162
space_is_free(space_id, start_time, end_time, bs) ==
  LET target_start == fromisoformat(start_time)
      target_end == fromisoformat(end_time)
  IN IF ~target_start.ok \/ ~target_end.ok
       THEN [ret |-> "raise", bookings |-> bs]
     ELSE Scan(space_id, target_start, target_end, bs, 1)


(* --------------------------- the two endpoints ------------------------ *)
\* the requested window of run(): "08:30:00" and "17:00:00" in half-hours
StartTime == 17
EndTime == 34

\* status 0 stands for an exception raised by the transport
Response(st, kind, l) == [status |-> st, body |-> kind, bookings |-> l]

\* a 401 answered with an empty list instead of None
get_bookings_empty_on_401(r) ==
  IF r.status = 200 /\ r.body = "bookings" THEN [none |-> FALSE, list |-> r.bookings]
  ELSE IF r.status = 200 /\ r.body = "nokey" THEN [none |-> FALSE, list |-> <<>>]
  ELSE IF r.status = 401 THEN [none |-> FALSE, list |-> <<>>]
  ELSE [none |-> TRUE, list |-> <<>>]

\* lines 115-128: the list of bookings, or None
get_bookings(r) ==
  IF r.status = 200 /\ r.body = "bookings" THEN [none |-> FALSE, list |-> r.bookings]
  ELSE IF r.status = 200 /\ r.body = "nokey" THEN [none |-> FALSE, list |-> <<>>]
  ELSE [none |-> TRUE, list |-> <<>>]

\* lines 204-224: space_id on 200, False on 422, on any other status and on
\* an exception
book_space(space_id, status) == IF status = 200 THEN space_id ELSE FalseV

PostStatuses == {200, 422, 500, 0}

(* ------------------------------ inputs -------------------------------- *)
SpaceIds == {"", "1", "2"}

\* self.spaces: the keys of a JSON object in insertion order (no key twice)
SpaceLists ==
  { q \in UNION { [1..n -> SpaceIds] : n \in 0..MaxSpaces } :
      \A a, b \in 1..Len(q) : a # b => q[a] # q[b] }

\* the blocked-identifier fields a booking arrives with: spaces, space
SpaceFields ==
  { <<ListV(<<StrV("1")>>), Absent>>,
    <<ListV(<<IntV(1)>>), Absent>>,
    <<StrV("1"), Absent>>,
    <<Absent, StrV("1")>>,
    <<ListV(<<StrV("2")>>), StrV("1")>>,
    <<ListV(<<StrV("2")>>), StrV("")>>,
    <<IntV(1), Absent>>,
    <<Null, StrV("1")>> }

\* the start and end a booking arrives with
TimeFields ==
  { <<Naive(StartTime - 1), Naive(StartTime)>>,
    <<Naive(EndTime), Naive(EndTime + 1)>>,
    <<Naive(StartTime - 1), Naive(StartTime + 1)>>,
    <<Naive(EndTime - 1), Naive(EndTime + 1)>>,
    <<Zulu(StartTime - 1), Zulu(EndTime + 1)>>,
    <<Offset(StartTime + 1, 2), Offset(EndTime - 1, 2)>>,
    <<Malformed, Naive(EndTime)>>,
    <<Naive(StartTime), Missing>> }

MainSpaceField == <<ListV(<<StrV("1")>>), Absent>>
MainTimeField == <<Naive(StartTime - 1), Naive(StartTime + 1)>>

BookingShapes ==
  { Booking(f[1], f[2], MainTimeField[1], MainTimeField[2]) : f \in SpaceFields }
  \cup { Booking(MainSpaceField[1], MainSpaceField[2], t[1], t[2]) : t \in TimeFields }
  \cup { Booking(IntV(1), Absent, Malformed, Naive(EndTime)) }

BookingLists == UNION { [1..n -> BookingShapes] : n \in 0..MaxBookings }

Responses ==
  { Response(200, "bookings", l) : l \in BookingLists }
  \cup { Response(200, "nokey", <<>>), Response(200, "null", <<>>),
         Response(200, "invalid", <<>>), Response(401, "none", <<>>),
         Response(500, "none", <<>>), Response(0, "none", <<>>) }

(* -------------------------------- run --------------------------------- *)
NotFetched == [done |-> FALSE, status |-> 0, body |-> "none"]
NoResult == [ret |-> Null, msg |-> "", arg |-> 0]

Init ==
  /\ spaces \in SpaceLists
  /\ pc = "Start"
  /\ at = "get_bookings"
  /\ start_dt = Missing
  /\ end_dt = Missing
  /\ bookings = <<>>
  /\ fetched = NotFetched
  /\ i = 0
  /\ checked = <<>>
  /\ posted = <<>>
  /\ result = NoResult

\* lines 226-229: run(date) with the default start_time and end_time
Run ==
  /\ pc = "Start"
  /\ pc' = "Fetching"
  /\ start_dt' = Naive(StartTime)
  /\ end_dt' = Naive(EndTime)
  /\ UNCHANGED <<spaces, at, bookings, fetched, i, checked, posted, result>>

\* lines 232-239
GetBookings ==
  /\ pc = "Fetching"
  /\ \E r \in Responses :
       LET b == get_bookings(r)
       IN /\ fetched' = [done |-> TRUE, status |-> r.status, body |-> r.body]
          /\ IF b.none
               THEN /\ pc' = "FetchFailed"
                    /\ result' = [ret |-> FalseV, msg |-> "couldn't get bookings", arg |-> 0]
                    /\ UNCHANGED <<bookings, i, at>>
               ELSE /\ pc' = "Attempting"
                    /\ bookings' = b.list
                    /\ i' = 1
                    /\ at' = "space_is_free"
                    /\ UNCHANGED result
  /\ UNCHANGED <<spaces, start_dt, end_dt, checked, posted>>

\* lines 239-242, 250-251: the availability check of candidate i
SpaceIsFree ==
  /\ pc = "Attempting"
  /\ at = "space_is_free"
  /\ i <= Len(spaces)
  /\ LET r == space_is_free(StrV(spaces[i]), start_dt, end_dt, bookings)
     IN /\ bookings' = r.bookings
        /\ checked' = Append(checked, <<i, r.ret>>)
        /\ pc' = IF r.ret = "raise" THEN "Crashed" ELSE pc
        /\ at' = IF r.ret = "True" THEN "book_space" ELSE at
        /\ i' = IF r.ret = "False" THEN i + 1 ELSE i
  /\ UNCHANGED <<spaces, start_dt, end_dt, fetched, posted, result>>

\* a failed booking request abandons the run
BookSpaceAbandons ==
  /\ pc = "Attempting"
  /\ at = "book_space"
  /\ \E status \in PostStatuses :
       LET res == book_space(StrV(spaces[i]), status)
       IN /\ posted' = Append(posted, <<i, status>>)
          /\ IF Truthy(res)
               THEN /\ pc' = "Booked"
                    /\ result' = [ret |-> res, msg |-> "booked", arg |-> i]
                    /\ UNCHANGED <<i, at>>
               ELSE /\ pc' = "Exhausted"
                    /\ result' = [ret |-> FalseV, msg |-> "all spaces taken", arg |-> Len(spaces)]
                    /\ UNCHANGED <<i, at>>
  /\ UNCHANGED <<spaces, start_dt, end_dt, bookings, fetched, checked>>

\* a failed booking request is tried once more before the loop moves on
BookSpaceRetries ==
  /\ pc = "Attempting"
  /\ at = "book_space"
  /\ \E status \in PostStatuses :
       LET res == book_space(StrV(spaces[i]), status)
           again == \A k \in 1..Len(posted) : posted[k][1] # i
       IN /\ posted' = Append(posted, <<i, status>>)
          /\ IF Truthy(res)
               THEN /\ pc' = "Booked"
                    /\ result' = [ret |-> res, msg |-> "booked", arg |-> i]
                    /\ UNCHANGED <<i, at>>
               ELSE /\ i' = IF again THEN i ELSE i + 1
                    /\ at' = IF again THEN at ELSE "space_is_free"
                    /\ UNCHANGED <<pc, result>>
  /\ UNCHANGED <<spaces, start_dt, end_dt, bookings, fetched, checked>>

\* lines 243-249: the booking request for candidate i and what run makes of it
BookSpace ==
  /\ pc = "Attempting"
  /\ at = "book_space"
  /\ \E status \in PostStatuses :
       LET res == book_space(StrV(spaces[i]), status)
       IN /\ posted' = Append(posted, <<i, status>>)
          /\ IF Truthy(res)
               THEN /\ pc' = "Booked"
                    /\ result' = [ret |-> res, msg |-> "booked", arg |-> i]
                    /\ UNCHANGED <<i, at>>
               ELSE /\ i' = i + 1
                    /\ at' = "space_is_free"
                    /\ UNCHANGED <<pc, result>>
  /\ UNCHANGED <<spaces, start_dt, end_dt, bookings, fetched, checked>>

\* lines 253-254: the candidates are used up
Exhaust ==
  /\ pc = "Attempting"
  /\ at = "space_is_free"
  /\ i > Len(spaces)
  /\ pc' = "Exhausted"
  /\ result' = [ret |-> FalseV, msg |-> "all spaces taken", arg |-> Len(spaces)]
  /\ UNCHANGED <<spaces, at, start_dt, end_dt, bookings, fetched, i, checked, posted>>

Next == Run \/ GetBookings \/ SpaceIsFree \/ BookSpace \/ Exhaust

Spec == Init /\ [][Next]_vars


(* ======================= what the claims speak of ===================== *)
N == Len(spaces)
Terminal == pc \in {"FetchFailed", "Booked", "Exhausted", "Crashed"}
FetchedList == fetched.done /\ pc # "FetchFailed"

Checks == {checked[k] : k \in 1..Len(checked)}
Posts == {posted[k] : k \in 1..Len(posted)}
PostsOf(k) == {j \in 1..Len(posted) : posted[j][1] = k}

\* the blocked-resource set of a reservation as the specification defines it:
\* the single-resource field merged with the one-or-many field, identifiers
\* as strings (an empty single-resource field counts as absent)
IdsOf(v) ==
  CASE v.ty = "list" -> {Str(v.l[k]) : k \in 1..Len(v.l)}
    [] v.ty \in {"str", "int"} -> IF Truthy(v) THEN {Str(v)} ELSE {}
    [] OTHER -> {}
BlockedSet(b) == IdsOf(b.spaces) \cup IdsOf(b.space)

\* the venue's UTC offsets considered, in half-hours; the requested window
\* is venue-local, an aware timestamp is brought to venue-local time
VenueOffsets == 0..2
WellFormed(t) == t.form \in {"naive", "Z", "offset"}
Aware(t) == t.form \in {"Z", "offset"}
LocalTime(t, o) == IF Aware(t) THEN t.clock - t.off + o ELSE t.clock

\* the reservation's interval overlaps the requested window [rs, re):
\* rs < be /\ re > bs, for an aware interval at every venue offset considered
Overlapping(b, rs, re) ==
  /\ WellFormed(b.start)
  /\ WellFormed(b.end)
  /\ \A o \in VenueOffsets :
       rs.clock < LocalTime(b.end, o) /\ re.clock > LocalTime(b.start, o)

\* some fetched reservation names the identifier and overlaps the window
Occupied(id) ==
  \E k \in 1..Len(bookings) :
     id \in BlockedSet(bookings[k]) /\ Overlapping(bookings[k], start_dt, end_dt)

RemoveAt(q, k) == [j \in 1..(Len(q) - 1) |-> IF j < k THEN q[j] ELSE q[j + 1]]

(* =============================== claims =============================== *)

\* C1: once a booking request for candidate k is acknowledged with 200, the
\* run has returned Booked for candidate k, it is the last request of the
\* run, and no candidate after k has been checked; so at most one request
\* is acknowledged in a run.
C1_AckEndsRun ==
  \A j \in 1..Len(posted) :
     posted[j][2] = 200 =>
        /\ j = Len(posted)
        /\ pc = "Booked"
        /\ result.ret = StrV(spaces[posted[j][1]])
        /\ \A c \in Checks : c[1] <= posted[j][1]

\* C2: no booking request is issued for a candidate that some fetched
\* reservation names with an interval overlapping the requested window.
C2_OccupiedNeverPosted ==
  \A p \in Posts : ~Occupied(spaces[p[1]])

\* C3: space_is_free returns False exactly when some reservation whose
\* blocked-resource set holds the target has an interval with rs < be and
\* re > bs (so touching intervals and other resources leave it free).
C3_FalseIffOverlap ==
  \A c \in Checks : (c[2] = "False") <=> Occupied(spaces[c[1]])

\* C4: a failed fetch (401, any other non-200 status, transport error) ends
\* the run in FetchFailed with no availability check and no booking request.
C4_FetchFailureAborts ==
  (fetched.done /\ fetched.status # 200) =>
     /\ pc = "FetchFailed"
     /\ result.ret = FalseV
     /\ checked = <<>>
     /\ posted = <<>>

C4_Witness ==
  pc = "FetchFailed" /\ fetched.status = 401 /\ N = MaxSpaces

\* C5: a failed booking request (422, other non-200 status, transport error)
\* never ends the run: after the failed request of a free candidate k < N
\* the run checks candidate k+1 (it has done so, or that check is its next
\* step), and after the failed request of the last candidate the run ends
\* Exhausted.
C5_FailedBookingContinues ==
  /\ \A p \in Posts :
        (p[2] # 200 /\ p[1] < N) =>
           \/ \E c \in Checks : c[1] = p[1] + 1
           \/ pc = "Attempting" /\ at = "space_is_free" /\ i = p[1] + 1
  /\ \A p \in Posts :
        (p[2] # 200 /\ p[1] = N /\ Terminal) => pc = "Exhausted"

C5_Witness ==
  \E p \in Posts :
     /\ p[2] = 422
     /\ p[1] < N
     /\ \E c \in Checks : c[1] = p[1] + 1

\* C6: when the fetch succeeded and every candidate is occupied or had its
\* booking request fail, the run ends Exhausted with count N; candidates
\* (it has, or the return of Exhausted is the one step left); candidates
\* are checked once each in configured order and every free candidate
\* gets exactly one booking request.
AllOccupiedOrFailed ==
  /\ FetchedList
  /\ \A k \in 1..N :
        \/ <<k, "False">> \in Checks
        \/ \E p \in Posts : p[1] = k /\ p[2] # 200

C6_ExhaustedOnceEach ==
  /\ (Terminal /\ AllOccupiedOrFailed) => pc = "Exhausted"
  /\ (~Terminal /\ AllOccupiedOrFailed) =>
        (pc = "Attempting" /\ at = "space_is_free" /\ i = N + 1)
  /\ \A k \in 1..Len(checked) : checked[k][1] = k
  /\ \A k \in 1..N : Cardinality(PostsOf(k)) <= 1
  /\ \A p \in Posts : <<p[1], "True">> \in Checks
  /\ pc = "Exhausted" =>
        /\ result = [ret |-> FalseV, msg |-> "all spaces taken", arg |-> N]
        /\ Len(checked) = N
        /\ \A k \in 1..N :
              Cardinality(PostsOf(k)) = IF checked[k][2] = "True" THEN 1 ELSE 0

C6_Witness ==
  /\ pc = "Exhausted"
  /\ N = MaxSpaces
  /\ \E c \in Checks : c[2] = "False"
  /\ \E p \in Posts : p[2] = 422

\* C7: a reservation with malformed or missing start/end timestamps is
\* ignored: the check gives the result it gives with that reservation
\* removed from the list, and so never fails because of it.
C7_MalformedIgnored ==
  (pc = "Attempting" /\ at = "space_is_free") =>
     \A k \in 1..Len(bookings) : \A id \in SpaceIds :
        (~WellFormed(bookings[k].start) \/ ~WellFormed(bookings[k].end)) =>
           space_is_free(StrV(id), start_dt, end_dt, bookings).ret
             = space_is_free(StrV(id), start_dt, end_dt, RemoveAt(bookings, k)).ret

\* C8: a reservation whose timestamps carry the UTC marker or an explicit
\* offset takes part in the overlap test: when it names the candidate and
\* overlaps the window run() built, the check returns False and the
\* candidate gets no booking request.
C8_AwareTimestampsBlock ==
  \A c \in Checks :
     (\E k \in 1..Len(bookings) :
         /\ Aware(bookings[k].start)
         /\ Aware(bookings[k].end)
         /\ spaces[c[1]] \in BlockedSet(bookings[k])
         /\ Overlapping(bookings[k], start_dt, end_dt))
     => (c[2] = "False" /\ PostsOf(c[1]) = {})

\* C9: once fetched, the reservation records never change for the rest of
\* the run.
C9_BookingsImmutable ==
  [][fetched.done => bookings' = bookings]_vars

\* C10: a run is always in one of the states of the stated state machine
\* (an uncaught failure is none of them), it fetches before it attempts,
\* and it makes at most N checks.
C10_StateMachine ==
  /\ pc \in {"Start", "Fetching", "FetchFailed", "Attempting", "Booked", "Exhausted"}
  /\ (pc \in {"Attempting", "Booked", "Exhausted"} => fetched.done)
  /\ (pc \in {"Start", "Fetching"} => ~fetched.done /\ checked = <<>> /\ posted = <<>>)
  /\ Len(checked) <= N
  /\ Len(posted) <= N

====
